---- MODULE Spec2Model ----
(***************************************************************************)
(* nornir-netbox-demo.py: the provisioning pipeline of main(), the        *)
(* connectivity validation of validate_l3 and the NetBox reconciliation   *)
(* of update_netbox.                                                       *)
(*                                                                         *)
(* nr.run(task=T) is Nornir's threaded runner: it starts T for every host *)
(* of the inventory that is not in nr.data.failed_hosts, joins all of     *)
(* them, and then adds the hosts whose task raised to failed_hosts.       *)
(***************************************************************************)
EXTENDS Integers, Sequences, FiniteSets, TLC

\* ------------------------------------------------------------- bounds
\* width of an address in bits (32 in ipaddress.IPv4Interface)
AddrBits == 4
\* largest packet_loss a probe result reports
MaxLoss == 2
\* how often the reconcile harness calls update_netbox for one device
MaxRuns == 2

\* ---------------------------------------------------- program constants
\* validate_l3: packet_loss < 2 passes
LossThreshold == 2
\* main: time.sleep(20)
SettleSeconds == 20
\* update_netbox: device_role={"id": 2}
ProductionRole == 2
\* the role id behind nr.filter(role="wan-router-provision")
ProvisionRole == 1

Devices == {"csr1", "csr2"}

\* ------------------------------------------------- ipaddress.ip_interface
Pow2(n) == 2 ^ n

AllOnes == Pow2(AddrBits) - 1

Addrs == 0 .. AllOnes

\* ipaddress._count_righthand_zero_bits(number, bits)
CountRighthandZeroBits(number, bits) ==
    IF number = 0 THEN bits
    ELSE LET F[k \in 0 .. bits] ==
                 IF k = bits \/ (number \div Pow2(k)) % 2 = 1 THEN k ELSE F[k + 1]
         IN  F[0]

\* ipaddress._prefix_from_ip_int: the prefix length of a netmask, -1 for the
\* ValueError of a mask that mixes zeroes and ones
PrefixFromIpInt(ip_int) ==
    LET trailing_zeroes == CountRighthandZeroBits(ip_int, AddrBits)
        prefixlen       == AddrBits - trailing_zeroes
        leading_ones    == ip_int \div Pow2(trailing_zeroes)
        all_ones        == Pow2(prefixlen) - 1
    IN  IF leading_ones # all_ones THEN -1 ELSE prefixlen

\* ipaddress._make_netmask on a dotted mask: a netmask, else a hostmask
MakeNetmask(mask) ==
    LET p == PrefixFromIpInt(mask)
    IN  IF p # -1 THEN p ELSE PrefixFromIpInt(AllOnes - mask)

\* the netmask of a prefix length, as an integer
NetmaskOf(prefixlen) == AllOnes - (Pow2(AddrBits - prefixlen) - 1)

\* bitwise and of two addresses
BitAnd(a, b) ==
    LET F[k \in 0 .. AddrBits] ==
            IF k = AddrBits THEN 0
            ELSE F[k + 1]
                 + (IF (a \div Pow2(k)) % 2 = 1 /\ (b \div Pow2(k)) % 2 = 1
                    THEN Pow2(k) ELSE 0)
    IN  F[0]

\* ip_interface(f"{ip}/{mask}"): the address, its prefix length and its network
ip_interface(ip, mask) ==
    LET p == MakeNetmask(mask)
    IN  [ip |-> ip, prefixlen |-> p,
         network |-> [network_address |-> BitAnd(ip, NetmaskOf(p)), netmask |-> NetmaskOf(p)]]

\* str(ip_interface(...)): the canonical CIDR string "ip/prefixlen"
CidrStr(iface) == <<iface.ip, iface.prefixlen>>

\* ------------------------------------------------------------ NetBox data
IfGig == "GigabitEthernet1"

IfLoop == "Loopback0"

IfStale == "GigabitEthernet9"

\* one interface of the Config Context: "ipaddr": "<address> <mask>"
Intf(name, ip, prefixlen, descr) ==
    [name |-> name, ipaddr |-> <<ip, NetmaskOf(prefixlen)>>, description |-> descr]

\* Config Context data as in the module docstring and tests/config_vars.py,
\* on AddrBits-bit addresses: an uplink, a loopback, the BGP neighbors
CtxA ==
    [interfaces |-> <<Intf(IfGig, 5, 2, "Uplink"), Intf(IfLoop, 1, AddrBits, "Router ID")>>,
     bgp |-> [neighbors |-> <<[ipaddr |-> 6], [ipaddr |-> 9]>>]]

CtxB ==
    [interfaces |-> <<Intf(IfGig, 6, 2, "Uplink"), Intf(IfLoop, 5, 1, "Router ID")>>,
     bgp |-> [neighbors |-> <<[ipaddr |-> 5]>>]]

Contexts == {CtxA, CtxB}

\* local_context_data of a device that has no Config Context: null
None == [none |-> TRUE]

\* config_vars holds a Config Context, with its interfaces and neighbors
HasContext(cv) == "interfaces" \in DOMAIN cv

\* the NetBox id of a device
DeviceId(d) == IF d = "csr1" THEN 101 ELSE 102

\* interface and IP records NetBox may hold before the run
NbInterface(id, d, name, descr, mac) ==
    [id |-> id, device |-> [id |-> DeviceId(d), display_name |-> d], name |-> name,
     description |-> descr, mac_address |-> mac]

PreInterfaces ==
    <<NbInterface(1, "csr1", IfGig, "", "aa"), NbInterface(2, "csr1", IfStale, "old", "bb")>>

PreIps == <<[address |-> CidrStr(ip_interface(5, NetmaskOf(2))), interface |-> 1]>>

\* what the device reports for its interfaces before any configuration
FactoryInterfaces == <<[name |-> IfGig, description |-> "", mac_address |-> "aa"]>>

\* ---------------------------------------------------------------- main()
Run(task) == [op |-> "run", task |-> task]

Op(op) == [op |-> op, task |-> ""]

\* main() that would update NetBox before the BGP validation
mainReconcileEarly ==
    << Op("kickoff"), Op("proceed"), Run("scp_enable"), Run("get_config_vars"),
       Run("render_configs"), Op("proceed"), Run("apply_l3_configs"), Op("sleep"),
       Run("validate_l3"), Op("proceed"), Run("apply_bgp_configs"), Op("sleep"),
       Run("update_netbox"), Run("validate_bgp"), Run("scp_disable") >>

\* main() that would not ask before enabling SCP
mainTwoGates ==
    << Op("kickoff"), Run("scp_enable"), Run("get_config_vars"),
       Run("render_configs"), Op("proceed"), Run("apply_l3_configs"), Op("sleep"),
       Run("validate_l3"), Op("proceed"), Run("apply_bgp_configs"), Op("sleep"),
       Run("validate_bgp"), Run("update_netbox"), Run("scp_disable") >>

\* main() that would disable SCP and save before asking for the BGP stage
mainCleanupBeforeGate ==
    << Op("kickoff"), Op("proceed"), Run("scp_enable"), Run("get_config_vars"),
       Run("render_configs"), Op("proceed"), Run("apply_l3_configs"), Op("sleep"),
       Run("validate_l3"), Run("scp_disable"), Op("proceed"), Run("apply_bgp_configs"),
       Op("sleep"), Run("validate_bgp"), Run("update_netbox") >>

\* the statements of main(), in order
main ==
    << Op("kickoff"),
       Op("proceed"),
       Run("scp_enable"),
       Run("get_config_vars"),
       Run("render_configs"),
       Op("proceed"),
       Run("apply_l3_configs"),
       Op("sleep"),
       Run("validate_l3"),
       Op("proceed"),
       Run("apply_bgp_configs"),
       Op("sleep"),
       Run("validate_bgp"),
       Run("update_netbox"),
       Run("scp_disable") >>

\* what input() may return at a gate
Answers == {"y", "Y", "n", ""}

\* str.lower()
Lower(s) == IF s = "Y" THEN "y" ELSE IF s = "N" THEN "n" ELSE s

VARIABLES
    pc,            \* main(): index of the next statement
    status,        \* "running", "exited" (exit()), "done", or "harness"
    started,       \* nr.run of main[pc] has started its tasks
    hosts,         \* nr.inventory.hosts after the role filter
    pending,       \* hosts whose task of the current nr.run has not started
    result,        \* per host: outcome of its task in the current nr.run
    raised_in,     \* per host: the stages in which its task raised
    warned,        \* per host: a validation stage has printed a FAILED or DOWN line for it
    failed_hosts,  \* nr.data.failed_hosts
    confirm,       \* proceed(): the last answer read
    gates,         \* per confirmation requested: the number of stages run before it
    clock,         \* seconds slept so far
    reports,       \* the "Failed hosts:" lines printed so far
    trace,         \* per host: the stages it has executed, with their time
    host,          \* task.host[...] data of each host
    configs,       \* configs/<host>_intf.txt and configs/<host>_bgp.txt
    dev,           \* the devices: SCP, interfaces, BGP, saved configuration
    nb_devices,    \* NetBox device records
    nb_interfaces, \* NetBox interface records, in creation order
    nb_ips,        \* NetBox IP address records, in creation order
    l3,            \* validate_l3: probes issued, results, failed_pings, message
    bgp,           \* validate_bgp: peers fetched and messages printed
    tpc,           \* update_netbox: position of each host's task
    un,            \* update_netbox: local variables of each host's task
    runs           \* harness: calls of update_netbox per host

vars == <<pc, status, started, hosts, pending, result, raised_in, warned, failed_hosts, confirm, gates,
          clock, reports, trace, host, configs, dev, nb_devices, nb_interfaces, nb_ips,
          l3, bgp, tpc, un, runs>>

mainVars == <<pc, status, started, hosts, pending, result, raised_in, warned, failed_hosts, confirm, gates,
              clock, reports, trace>>

L3None == [ran |-> FALSE, probes |-> <<>>, results |-> <<>>, failed_pings |-> 0,
           message |-> FALSE]

BgpNone == [ran |-> FALSE, peers |-> <<>>, messages |-> <<>>]

UnNone == [interfaces |-> <<>>, nb_interfaces |-> <<>>, todo |-> <<>>, intents |-> <<>>,
           ipaddr |-> <<>>, ip_exists |-> <<>>, creates |-> 0, flagged |-> {}, fresh |-> {}]

\* task.host[...]: no key set yet
HostNone == [keys |-> {}, device_id |-> 0, config_vars |-> <<>>]

\* no file written under configs/ yet
ConfigsNone == [written |-> {}, intf |-> <<>>, bgp |-> <<>>]

DevInit == [scp |-> FALSE, interfaces |-> FactoryInterfaces, bgp |-> <<>>, saved |-> FALSE]

\* the state the script starts in: NetBox holds the devices with their role and
\* Config Context, and possibly interface and IP records of an earlier run
Init ==
    /\ pc = 1
    /\ status = "running"
    /\ started = FALSE
    /\ hosts = {}
    /\ pending = {}
    /\ result = [d \in Devices |-> "none"]
    /\ raised_in = [d \in Devices |-> {}]
    /\ warned = [d \in Devices |-> FALSE]
    /\ failed_hosts = {}
    /\ confirm = ""
    /\ gates = <<>>
    /\ clock = 0
    /\ reports = <<>>
    /\ trace = [d \in Devices |-> <<>>]
    /\ host = [d \in Devices |-> HostNone]
    /\ configs = [d \in Devices |-> ConfigsNone]
    /\ dev = [d \in Devices |-> DevInit]
    /\ \E ctx \in [Devices -> Contexts \cup {None}], found \in [Devices -> BOOLEAN],
          role \in [Devices -> {ProvisionRole, ProductionRole}] :
          nb_devices = [d \in Devices |->
                           [id |-> DeviceId(d), role |-> role[d], found |-> found[d],
                            local_context_data |-> ctx[d]]]
    /\ nb_interfaces \in {<<>>, PreInterfaces}
    /\ nb_ips \in {<<>>, PreIps}
    /\ l3 = [d \in Devices |-> L3None]
    /\ bgp = [d \in Devices |-> BgpNone]
    /\ tpc = [d \in Devices |-> "idle"]
    /\ un = [d \in Devices |-> UnNone]
    /\ runs = [d \in Devices |-> 0]

\* ------------------------------------------------------------- proceed()
\* proceed() that would go on whatever the answer
proceedWithoutExit(answer) ==
    /\ confirm' = answer
    /\ gates' = Append(gates, Len(reports))
    /\ status' = status
    /\ pc' = pc + 1

\* proceed(): read an answer; exit() unless it is "y" in any case
proceed(answer) ==
    /\ confirm' = answer
    /\ gates' = Append(gates, Len(reports))
    /\ IF Lower(answer) # "y"
       THEN /\ status' = "exited"
            /\ pc' = pc
       ELSE /\ status' = status
            /\ pc' = pc + 1

\* a kickoff() that would go on with an empty inventory
kickoffWithoutExit ==
    /\ hosts' = {d \in Devices : nb_devices[d].role = ProvisionRole}
    /\ status' = status
    /\ pc' = pc + 1

\* kickoff(): filter the inventory on the role; exit() when no host is left
kickoff ==
    /\ hosts' = {d \in Devices : nb_devices[d].role = ProvisionRole}
    /\ IF hosts' = {}
       THEN /\ status' = "exited"
            /\ pc' = pc
       ELSE /\ status' = status
            /\ pc' = pc + 1

AtOp(op) == status = "running" /\ pc \in DOMAIN main /\ main[pc].op = op

Kickoff ==
    /\ AtOp("kickoff")
    /\ kickoff
    /\ UNCHANGED <<started, pending, result, raised_in, warned, failed_hosts, confirm, gates, clock, reports,
                   trace, host, configs, dev, nb_devices, nb_interfaces, nb_ips, l3, bgp,
                   tpc, un, runs>>

Proceed ==
    /\ AtOp("proceed")
    /\ \E answer \in Answers : proceed(answer)
    /\ UNCHANGED <<started, hosts, pending, result, raised_in, warned, failed_hosts, clock, reports,
                   trace, host, configs, dev, nb_devices, nb_interfaces, nb_ips, l3, bgp,
                   tpc, un, runs>>

\* main() that would go on without sleeping
SleepSkipped ==
    /\ AtOp("sleep")
    /\ pc' = pc + 1
    /\ UNCHANGED <<status, started, hosts, pending, result, raised_in, warned, failed_hosts, confirm,
                   gates, clock, reports, trace, host, configs, dev, nb_devices,
                   nb_interfaces, nb_ips, l3, bgp, tpc, un, runs>>

\* time.sleep(20)
Sleep ==
    /\ AtOp("sleep")
    /\ clock' = clock + SettleSeconds
    /\ pc' = pc + 1
    /\ UNCHANGED <<status, started, hosts, pending, result, raised_in, warned, failed_hosts, confirm, gates,
                   reports, trace, host, configs, dev, nb_devices, nb_interfaces, nb_ips,
                   l3, bgp, tpc, un, runs>>

\* ---------------------------------------------------------------- nr.run
\* nr.run that would not skip the failed hosts
RunOnAllHosts == hosts

\* nr.run(task=...): the hosts the task is started for are those of the
\* inventory that are not in nr.data.failed_hosts

RunOn == {d \in hosts : d \notin failed_hosts}

RunStart ==
    /\ AtOp("run")
    /\ ~started
    /\ started' = TRUE
    /\ pending' = RunOn
    /\ UNCHANGED <<pc, status, hosts, result, raised_in, warned, failed_hosts, confirm, gates, clock, reports,
                   trace, host, configs, dev, nb_devices, nb_interfaces, nb_ips, l3, bgp,
                   tpc, un, runs>>

\* nr.run returns when every task has ended: the hosts whose task raised join
\* failed_hosts, the results are dropped, and main() prints the failed hosts
RunEnd ==
    /\ AtOp("run")
    /\ started
    /\ pending = {}
    /\ \A d \in Devices : tpc[d] \in {"idle", "done", "raised"}
    /\ failed_hosts' = failed_hosts \cup {d \in Devices : result[d] = "failed"}
    /\ reports' = Append(reports, failed_hosts')
    /\ result' = [d \in Devices |-> "none"]
    /\ l3' = [d \in Devices |-> L3None]
    /\ bgp' = [d \in Devices |-> BgpNone]
    /\ tpc' = [d \in Devices |-> "idle"]
    /\ un' = [d \in Devices |-> UnNone]
    /\ started' = FALSE
    /\ pc' = pc + 1
    /\ status' = IF pc = Len(main) THEN "done" ELSE status
    /\ UNCHANGED <<hosts, pending, raised_in, warned, confirm, gates, clock, trace, host, configs,
                   dev, nb_devices, nb_interfaces, nb_ips, runs>>

\* a worker thread of nr.run picks up host d for the task of main[pc]
Begin(task, d) ==
    /\ AtOp("run")
    /\ main[pc].task = task
    /\ started
    /\ d \in pending
    /\ pending' = pending \ {d}
    /\ trace' = [trace EXCEPT ![d] = Append(@, [stage |-> task, t |-> clock])]

\* a task whose FAILED or DOWN line would count as the task raising
EndsWarnedAsFailure(d, task, outcome, warning) ==
    /\ result' = [result EXCEPT ![d] = IF warning THEN "failed" ELSE outcome]
    /\ raised_in' = [raised_in EXCEPT ![d] = IF outcome = "failed" THEN @ \cup {task} ELSE @]
    /\ warned' = [warned EXCEPT ![d] = @ \/ warning]

\* the task of host d returns (outcome "ok") or raises (outcome "failed"), having
\* printed a FAILED or DOWN line (warning) or none
EndsWarned(d, task, outcome, warning) ==
    /\ result' = [result EXCEPT ![d] = outcome]
    /\ raised_in' = [raised_in EXCEPT ![d] = IF outcome = "failed" THEN @ \cup {task} ELSE @]
    /\ warned' = [warned EXCEPT ![d] = @ \/ warning]

\* the task of host d returns or raises; it prints no validation line
Ends(d, task, outcome) == EndsWarned(d, task, outcome, FALSE)

\* ------------------------------------------------------------ the tasks
\* scp_enable(task): "ip scp server enable"
scp_enable(d) == dev' = [dev EXCEPT ![d].scp = TRUE]

ScpEnable(d) ==
    /\ Begin("scp_enable", d)
    /\ \/ scp_enable(d) /\ Ends(d, "scp_enable", "ok")
       \/ UNCHANGED dev /\ Ends(d, "scp_enable", "failed")
    /\ UNCHANGED <<pc, status, started, hosts, failed_hosts, confirm, gates, clock, reports,
                   host, configs, nb_devices, nb_interfaces, nb_ips, l3, bgp, tpc, un, runs>>

\* get_config_vars(task, netbox): device id and Config Context into task.host;
\* get_devices(name=...)[0] raises when the lookup by name returns no record
get_config_vars(d) ==
    /\ nb_devices[d].found
    /\ host' = [host EXCEPT ![d] = [keys |-> {"device_id", "config_vars"},
                                    device_id |-> nb_devices[d].id,
                                    config_vars |-> nb_devices[d].local_context_data]]

GetConfigVars(d) ==
    /\ Begin("get_config_vars", d)
    /\ \/ get_config_vars(d) /\ Ends(d, "get_config_vars", "ok")
       \/ UNCHANGED host /\ Ends(d, "get_config_vars", "failed")
    /\ UNCHANGED <<pc, status, started, hosts, failed_hosts, confirm, gates, clock, reports,
                   configs, dev, nb_devices, nb_interfaces, nb_ips, l3, bgp, tpc, un, runs>>

\* render_configs(task): the two rendered files of the host; the templates
\* read the interfaces and the neighbors of config_vars, and template_file
\* raises on a variable that is undefined
render_configs(d) ==
    /\ HasContext(host[d].config_vars)
    /\ configs' = [configs EXCEPT ![d] = [written |-> {"intf", "bgp"},
                                          intf |-> host[d].config_vars.interfaces,
                                          bgp |-> host[d].config_vars.bgp.neighbors]]

RenderConfigs(d) ==
    /\ Begin("render_configs", d)
    /\ \/ render_configs(d) /\ Ends(d, "render_configs", "ok")
       \/ UNCHANGED configs /\ Ends(d, "render_configs", "failed")
    /\ UNCHANGED <<pc, status, started, hosts, failed_hosts, confirm, gates, clock, reports,
                   host, dev, nb_devices, nb_interfaces, nb_ips, l3, bgp, tpc, un, runs>>

Names(seq) == {seq[i].name : i \in DOMAIN seq}

\* the device's interfaces after merging an interface configuration: a
\* configured interface takes the description, a new (logical) one is created
MergeInterfaces(have, cfg) ==
    LET upd == [i \in DOMAIN have |->
                   IF \E j \in DOMAIN cfg : cfg[j].name = have[i].name
                   THEN LET j == CHOOSE j \in DOMAIN cfg : cfg[j].name = have[i].name
                        IN  [have[i] EXCEPT !.description = cfg[j].description]
                   ELSE have[i]]
        new == SelectSeq(cfg, LAMBDA c : c.name \notin Names(have))
    IN  upd \o [i \in DOMAIN new |->
                   [name |-> new[i].name, description |-> new[i].description,
                    mac_address |-> ""]]

\* apply_l3_configs(task): napalm_configure with configs/<host>_intf.txt
apply_l3_configs(d) ==
    dev' = [dev EXCEPT ![d].interfaces = MergeInterfaces(@, configs[d].intf)]

ApplyL3Configs(d) ==
    /\ Begin("apply_l3_configs", d)
    /\ \/ apply_l3_configs(d) /\ Ends(d, "apply_l3_configs", "ok")
       \/ UNCHANGED dev /\ Ends(d, "apply_l3_configs", "failed")
    /\ UNCHANGED <<pc, status, started, hosts, failed_hosts, confirm, gates, clock, reports,
                   host, configs, nb_devices, nb_interfaces, nb_ips, l3, bgp, tpc, un, runs>>

\* apply_bgp_configs(task): napalm_configure with configs/<host>_bgp.txt
apply_bgp_configs(d) == dev' = [dev EXCEPT ![d].bgp = configs[d].bgp]

ApplyBgpConfigs(d) ==
    /\ Begin("apply_bgp_configs", d)
    /\ \/ apply_bgp_configs(d) /\ Ends(d, "apply_bgp_configs", "ok")
       \/ UNCHANGED dev /\ Ends(d, "apply_bgp_configs", "failed")
    /\ UNCHANGED <<pc, status, started, hosts, failed_hosts, confirm, gates, clock, reports,
                   host, configs, nb_devices, nb_interfaces, nb_ips, l3, bgp, tpc, un, runs>>

\* scp_disable(task): "no ip scp server enable", then save the configuration;
\* either call may raise
scp_disable(d) == dev' = [dev EXCEPT ![d].scp = FALSE, ![d].saved = TRUE]

ScpDisable(d) ==
    /\ Begin("scp_disable", d)
    /\ \/ scp_disable(d) /\ Ends(d, "scp_disable", "ok")
       \/ dev' = [dev EXCEPT ![d].scp = FALSE] /\ Ends(d, "scp_disable", "failed")
       \/ UNCHANGED dev /\ Ends(d, "scp_disable", "failed")
    /\ UNCHANGED <<pc, status, started, hosts, failed_hosts, confirm, gates, clock, reports,
                   host, configs, nb_devices, nb_interfaces, nb_ips, l3, bgp, tpc, un, runs>>

\* ----------------------------------------------------------- validate_l3
\* what napalm_ping returns: a "success" entry with its packet_loss, or an
\* "error" entry only
PingResults ==
    {[keys |-> {"error"}, packet_loss |-> 0]}
        \cup {[keys |-> {"success"}, packet_loss |-> k] : k \in 0 .. MaxLoss}

\* a comparison that would take the neighbor as a host address, without the mask
SameNetworkNoMask(intf, destination) ==
    LET src == ip_interface(intf.ipaddr[1], intf.ipaddr[2])
        dst == ip_interface(destination, AllOnes)
    IN  src.network = dst.network

\* src.network == dst.network, both taken under the interface's mask
SameNetwork(intf, destination) ==
    LET source == intf.ipaddr[1]
        mask   == intf.ipaddr[2]
        src    == ip_interface(source, mask)
        dst    == ip_interface(destination, mask)
    IN  src.network = dst.network

\* the probes of validate_l3 in the order of its two loops: neighbors outside,
\* interfaces inside
ProbePairs(cv) ==
    LET nbrs  == cv.bgp.neighbors
        intfs == cv.interfaces
        all   == [k \in 1 .. (Len(nbrs) * Len(intfs)) |->
                     [neighbor |-> ((k - 1) \div Len(intfs)) + 1,
                      intf     |-> ((k - 1) % Len(intfs)) + 1]]
        hit   == SelectSeq(all, LAMBDA p : SameNetwork(intfs[p.intf], nbrs[p.neighbor].ipaddr))
    IN  [k \in DOMAIN hit |->
            [neighbor |-> hit[k].neighbor, intf |-> intfs[hit[k].intf].name,
             source |-> intfs[hit[k].intf].ipaddr[1],
             dest |-> nbrs[hit[k].neighbor].ipaddr]]

\* a check that would let a packet_loss of 2 pass
PingFailedAboveThreshold(r) ==
    IF "success" \in r.keys
    THEN IF r.packet_loss <= LossThreshold THEN FALSE ELSE TRUE
    ELSE TRUE

\* the check of one ping result: TRUE when failed_pings is incremented
PingFailed(r) ==
    IF "success" \in r.keys
    THEN IF r.packet_loss < LossThreshold THEN FALSE ELSE TRUE
    ELSE TRUE

\* failed_pings after the results seen, counted as the loop counts
FailedPings(results) ==
    LET F[k \in 0 .. Len(results)] ==
            IF k = 0 THEN 0
            ELSE F[k - 1] + (IF PingFailed(results[k]) THEN 1 ELSE 0)
    IN  F[Len(results)]

\* validate_l3(task) with the results of its pings; with raised, the ping after
\* those results raised and ended the task
validate_l3(d, results, raised) ==
    LET pairs  == ProbePairs(host[d].config_vars)
        issued == IF raised THEN Len(results) + 1 ELSE Len(results)
    IN  l3' = [l3 EXCEPT ![d] =
                  [ran |-> TRUE,
                   probes |-> SubSeq(pairs, 1, issued),
                   results |-> results,
                   failed_pings |-> FailedPings(results),
                   message |-> ~raised /\ FailedPings(results) = 0]]

\* the task under nr.run: it returns after the last ping, or a ping raises
ValidateL3Task(d) ==
    LET n == Len(ProbePairs(host[d].config_vars))
    IN  \/ \E results \in [1 .. n -> PingResults] :
              /\ validate_l3(d, results, FALSE)
              /\ EndsWarned(d, "validate_l3", "ok", FailedPings(results) > 0)
        \/ \E k \in 0 .. (n - 1) : \E results \in [1 .. k -> PingResults] :
              /\ validate_l3(d, results, TRUE)
              /\ EndsWarned(d, "validate_l3", "failed", FailedPings(results) > 0)

ValidateL3(d) ==
    /\ Begin("validate_l3", d)
    /\ ValidateL3Task(d)
    /\ UNCHANGED <<pc, status, started, hosts, failed_hosts, confirm, gates, clock, reports,
                   host, configs, dev, nb_devices, nb_interfaces, nb_ips, bgp, tpc, un, runs>>

\* ---------------------------------------------------------- validate_bgp
\* a report that would print a line for the peers that are up only
BgpMessagesUpOnly(peers) ==
    LET F[k \in 0 .. Len(peers)] ==
            IF k = 0 THEN <<>>
            ELSE F[k - 1]
                 \o (IF peers[k].is_up = TRUE
                     THEN <<[peer |-> peers[k].peer, text |-> "UP"]>> ELSE <<>>)
    IN  F[Len(peers)]

\* the messages printed for the peers, in order
BgpMessages(peers) ==
    LET F[k \in 0 .. Len(peers)] ==
            IF k = 0 THEN <<>>
            ELSE F[k - 1]
                 \o (IF peers[k].is_up = TRUE
                     THEN <<[peer |-> peers[k].peer, text |-> "UP"]>> ELSE <<>>)
                 \o (IF peers[k].is_up = FALSE
                     THEN <<[peer |-> peers[k].peer, text |-> "DOWN"]>> ELSE <<>>)
    IN  F[Len(peers)]

\* validate_bgp(task) with the peers napalm_get returns
validate_bgp(d, peers) ==
    bgp' = [bgp EXCEPT ![d] = [ran |-> TRUE, peers |-> peers, messages |-> BgpMessages(peers)]]

ValidateBgp(d) ==
    /\ Begin("validate_bgp", d)
    /\ \/ \E up \in [DOMAIN dev[d].bgp -> BOOLEAN] :
             /\ validate_bgp(d, [k \in DOMAIN dev[d].bgp |->
                                    [peer |-> dev[d].bgp[k].ipaddr, is_up |-> up[k]]])
             /\ EndsWarned(d, "validate_bgp", "ok", \E k \in DOMAIN up : up[k] = FALSE)
       \/ UNCHANGED bgp /\ Ends(d, "validate_bgp", "failed")
    /\ UNCHANGED <<pc, status, started, hosts, failed_hosts, confirm, gates, clock, reports,
                   host, configs, dev, nb_devices, nb_interfaces, nb_ips, l3, tpc, un, runs>>

\* --------------------------------------------------------- update_netbox
\* netbox.dcim.get_interfaces(device_id=...)
get_interfaces(device_id) == SelectSeq(nb_interfaces, LAMBDA i : i.device.id = device_id)

\* netbox.ipam.get_ip_addresses(address=...)
get_ip_addresses(address) == SelectSeq(nb_ips, LAMBDA r : r.address = address)

\* a lookup that would take its two names in the other order
is_interface_present_swapped(nbs, device_name, interface_name) ==
    \E k \in DOMAIN nbs :
        nbs[k].name = device_name /\ nbs[k].device.display_name = interface_name

\* a lookup that would find nothing
is_interface_present_never(nbs, device_name, interface_name) ==
    \E k \in DOMAIN nbs : FALSE

\* is_interface_present(nb_interfaces, device_name, interface_name)
is_interface_present(nbs, device_name, interface_name) ==
    \E k \in DOMAIN nbs :
        nbs[k].name = interface_name /\ nbs[k].device.display_name = device_name

\* a normalisation that would let "Unspecified" through
NormalizeMacTwoPlaceholders(mac_address) ==
    IF mac_address = "None" \/ mac_address = ""
    THEN "EE:EE:EE:EE:EE:EE"
    ELSE mac_address

\* the MAC address written to NetBox for an observed one
NormalizeMac(mac_address) ==
    IF mac_address = "None" \/ mac_address = "Unspecified" \/ mac_address = ""
    THEN "EE:EE:EE:EE:EE:EE"
    ELSE mac_address

\* netbox.dcim.create_interface(...): NetBox appends a record with a fresh id
create_interface(d, name, description, mac_address) ==
    Append(nb_interfaces,
           NbInterface(Len(nb_interfaces) + 1, d, name, description, mac_address))

\* an update that would also prune the device's records of unobserved interfaces
update_interface_pruning(d, name, description, mac_address) ==
    SelectSeq([k \in DOMAIN nb_interfaces |->
                  IF nb_interfaces[k].name = name /\ nb_interfaces[k].device.display_name = d
                  THEN [nb_interfaces[k] EXCEPT !.description = description,
                                                !.mac_address = mac_address]
                  ELSE nb_interfaces[k]],
              LAMBDA r : r.device.display_name # d
                         \/ \E j \in DOMAIN un[d].interfaces : un[d].interfaces[j].name = r.name)

\* netbox.dcim.update_interface(device, interface, description, mac_address)
update_interface(d, name, description, mac_address) ==
    [k \in DOMAIN nb_interfaces |->
        IF nb_interfaces[k].name = name /\ nb_interfaces[k].device.display_name = d
        THEN [nb_interfaces[k] EXCEPT !.description = description,
                                      !.mac_address = mac_address]
        ELSE nb_interfaces[k]]

\* get_updated_info(task, netbox): NetBox interfaces of the device and the
\* interfaces the device reports, into the task's data
get_updated_info(d) ==
    [un[d] EXCEPT !.nb_interfaces = get_interfaces(host[d].device_id),
                  !.interfaces = dev[d].interfaces]

\* the names of the Config Context interfaces that host d reports and that
\* NetBox holds neither an interface record nor an IP record for
Fresh(d) ==
    LET intents == host[d].config_vars.interfaces
    IN  {intents[k].name : k \in
            {k \in DOMAIN intents :
                /\ \E j \in DOMAIN dev[d].interfaces : dev[d].interfaces[j].name = intents[k].name
                /\ ~is_interface_present(get_interfaces(host[d].device_id), d, intents[k].name)
                /\ get_ip_addresses(CidrStr(ip_interface(intents[k].ipaddr[1],
                                                          intents[k].ipaddr[2]))) = <<>>}}

\* update_netbox starts: the first get_updated_info, before the interface loop;
\* fresh keeps what was new to NetBox at that moment
UnStart(d) ==
    /\ tpc' = [tpc EXCEPT ![d] = "intf"]
    /\ un' = [un EXCEPT ![d] = [get_updated_info(d) EXCEPT
                                   !.todo = dev[d].interfaces,
                                   !.intents = <<>>, !.ipaddr = <<>>, !.ip_exists = <<>>,
                                   !.creates = 0, !.flagged = {}, !.fresh = Fresh(d)]]

UpdateNetbox(d) ==
    /\ Begin("update_netbox", d)
    /\ UnStart(d)
    /\ UNCHANGED <<pc, status, started, hosts, result, raised_in, warned, failed_hosts, confirm, gates, clock,
                   reports, host, configs, dev, nb_devices, nb_interfaces, nb_ips, l3, bgp,
                   runs>>

\* one pass of the loop over the observed interfaces: create the NetBox
\* interface when the fetched list does not hold it, update it otherwise
UnInterface(d) ==
    /\ tpc[d] = "intf"
    /\ un[d].todo # <<>>
    /\ LET i           == Head(un[d].todo)
           mac_address == NormalizeMac(i.mac_address)
       IN  IF ~is_interface_present(un[d].nb_interfaces, d, i.name)
           THEN /\ nb_interfaces' = create_interface(d, i.name, i.description, mac_address)
                /\ un' = [un EXCEPT ![d].todo = Tail(@), ![d].creates = @ + 1]
           ELSE /\ nb_interfaces' = update_interface(d, i.name, i.description, mac_address)
                /\ un' = [un EXCEPT ![d].todo = Tail(@)]
    /\ UNCHANGED <<mainVars, host, configs, dev, nb_devices, nb_ips, l3, bgp, tpc, runs>>

\* an IP loop that would work on the interface list fetched before the creations
UnRefreshSkipped(d) ==
    /\ tpc[d] = "intf"
    /\ un[d].todo = <<>>
    /\ un' = [un EXCEPT ![d].intents = host[d].config_vars.interfaces]
    /\ tpc' = [tpc EXCEPT ![d] = "ip"]
    /\ UNCHANGED <<mainVars, host, configs, dev, nb_devices, nb_interfaces, nb_ips, l3, bgp,
                   runs>>

\* after the interface loop: the second get_updated_info, before the IP loop
UnRefresh(d) ==
    /\ tpc[d] = "intf"
    /\ un[d].todo = <<>>
    /\ un' = [un EXCEPT ![d] = [get_updated_info(d) EXCEPT
                                   !.intents = host[d].config_vars.interfaces]]
    /\ tpc' = [tpc EXCEPT ![d] = "ip"]
    /\ UNCHANGED <<mainVars, host, configs, dev, nb_devices, nb_interfaces, nb_ips, l3, bgp,
                   runs>>

\* one pass of the loop over the Config Context interfaces, up to the lookup:
\* the CIDR string of the interface and the IP records NetBox holds for it
UnIpLookup(d) ==
    /\ tpc[d] = "ip"
    /\ un[d].intents # <<>>
    /\ LET intf   == Head(un[d].intents)
           ipaddr == CidrStr(ip_interface(intf.ipaddr[1], intf.ipaddr[2]))
       IN  un' = [un EXCEPT ![d].ipaddr = ipaddr,
                            ![d].ip_exists = get_ip_addresses(ipaddr)]
    /\ tpc' = [tpc EXCEPT ![d] = "ip_apply"]
    /\ UNCHANGED <<mainVars, host, configs, dev, nb_devices, nb_interfaces, nb_ips, l3, bgp,
                   runs>>

\* the NetBox interfaces of the fetched list that carry the name
Matching(nbs, name) == SelectSeq(nbs, LAMBDA i : i.name = name)

\* netbox.ipam.create_ip_address(address, interface) for each interface of m
CreateIps(ips, address, m) ==
    ips \o [k \in DOMAIN m |-> [address |-> address, interface |-> m[k].id]]

\* a pass that would create the IP record without looking at the lookup
UnIpApplyUnchecked(d) ==
    /\ tpc[d] = "ip_apply"
    /\ LET intf == Head(un[d].intents)
           m    == Matching(un[d].nb_interfaces, intf.name)
       IN  /\ nb_ips' = CreateIps(nb_ips, un[d].ipaddr, m)
           /\ un' = [un EXCEPT ![d].intents = Tail(@), ![d].creates = @ + Len(m)]
    /\ tpc' = [tpc EXCEPT ![d] = "ip"]
    /\ UNCHANGED <<mainVars, host, configs, dev, nb_devices, nb_interfaces, l3, bgp, runs>>

\* the rest of the pass: for the NetBox interface of that name, create the IP
\* record when the lookup found none, print the "verify manually" line otherwise
UnIpApply(d) ==
    /\ tpc[d] = "ip_apply"
    /\ LET intf == Head(un[d].intents)
           m    == Matching(un[d].nb_interfaces, intf.name)
       IN  IF un[d].ip_exists = <<>>
           THEN /\ nb_ips' = CreateIps(nb_ips, un[d].ipaddr, m)
                /\ un' = [un EXCEPT ![d].intents = Tail(@), ![d].creates = @ + Len(m)]
           ELSE /\ nb_ips' = nb_ips
                /\ un' = [un EXCEPT ![d].intents = Tail(@),
                                    ![d].flagged = IF m # <<>> THEN @ \cup {un[d].ipaddr}
                                                   ELSE @]
    /\ tpc' = [tpc EXCEPT ![d] = "ip"]
    /\ UNCHANGED <<mainVars, host, configs, dev, nb_devices, nb_interfaces, l3, bgp, runs>>

\* the task has ended: its local variables are gone, what it printed stays
Returned(u) == [UnNone EXCEPT !.creates = u.creates, !.flagged = u.flagged]

\* a return that would leave the device in Provisioning when an IP was flagged
UnDeviceUnlessFlagged(d) ==
    /\ tpc[d] = "ip"
    /\ un[d].intents = <<>>
    /\ nb_devices' = [nb_devices EXCEPT ![d].role =
                          IF un[d].flagged = {} THEN ProductionRole ELSE @]
    /\ tpc' = [tpc EXCEPT ![d] = "done"]
    /\ un' = [un EXCEPT ![d] = Returned(@)]
    /\ Ends(d, "update_netbox", "ok")
    /\ runs' = [runs EXCEPT ![d] = @ + 1]
    /\ UNCHANGED <<pc, status, started, hosts, pending, failed_hosts, confirm, gates, clock,
                   reports, trace, host, configs, dev, nb_interfaces, nb_ips, l3, bgp>>

\* netbox.dcim.update_device(device_type, device_role, site): the device
\* moves from Provisioning to Production, and the task returns
UnDevice(d) ==
    /\ tpc[d] = "ip"
    /\ un[d].intents = <<>>
    /\ nb_devices' = [nb_devices EXCEPT ![d].role = ProductionRole]
    /\ tpc' = [tpc EXCEPT ![d] = "done"]
    /\ un' = [un EXCEPT ![d] = Returned(@)]
    /\ Ends(d, "update_netbox", "ok")
    /\ runs' = [runs EXCEPT ![d] = @ + 1]
    /\ UNCHANGED <<pc, status, started, hosts, pending, failed_hosts, confirm, gates, clock,
                   reports, trace, host, configs, dev, nb_interfaces, nb_ips, l3, bgp>>

\* a NetBox or device call of update_netbox raises: the task ends there
UnRaise(d) ==
    /\ \/ tpc[d] \in {"intf", "ip"}
       \/ /\ tpc[d] = "ip_apply"
          /\ un[d].ip_exists = <<>>
          /\ Matching(un[d].nb_interfaces, Head(un[d].intents).name) # <<>>
    /\ tpc' = [tpc EXCEPT ![d] = "raised"]
    /\ un' = [un EXCEPT ![d] = Returned(@)]
    /\ Ends(d, "update_netbox", "failed")
    /\ UNCHANGED <<pc, status, started, hosts, pending, failed_hosts, confirm, gates, clock,
                   reports, trace, host, configs, dev, nb_devices, nb_interfaces, nb_ips,
                   l3, bgp, runs>>

\* ------------------------------------------------------ the script's runs
Next ==
    \/ Kickoff
    \/ Proceed
    \/ Sleep
    \/ RunStart
    \/ RunEnd
    \/ \E d \in Devices :
          \/ ScpEnable(d)
          \/ GetConfigVars(d)
          \/ RenderConfigs(d)
          \/ ApplyL3Configs(d)
          \/ ValidateL3(d)
          \/ ApplyBgpConfigs(d)
          \/ ValidateBgp(d)
          \/ UpdateNetbox(d)
          \/ UnInterface(d)
          \/ UnRefresh(d)
          \/ UnIpLookup(d)
          \/ UnIpApply(d)
          \/ UnDevice(d)
          \/ UnRaise(d)
          \/ ScpDisable(d)

Spec == Init /\ [][Next]_vars

\* ------------------------------------------- update_netbox, called directly
\* the interfaces a device reports once its interface configuration is applied
Observed(ctx, mac) ==
    LET merged == MergeInterfaces(FactoryInterfaces, ctx.interfaces)
    IN  [k \in DOMAIN merged |->
            IF merged[k].name = IfGig THEN [merged[k] EXCEPT !.mac_address = mac]
            ELSE merged[k]]

HarnessIdle ==
    /\ pc = 0
    /\ status = "harness"
    /\ started = FALSE
    /\ pending = {}
    /\ result = [d \in Devices |-> "none"]
    /\ raised_in = [d \in Devices |-> {}]
    /\ warned = [d \in Devices |-> FALSE]
    /\ failed_hosts = {}
    /\ confirm = ""
    /\ gates = <<>>
    /\ clock = 0
    /\ reports = <<>>
    /\ trace = [d \in Devices |-> <<>>]
    /\ configs = [d \in Devices |-> ConfigsNone]
    /\ l3 = [d \in Devices |-> L3None]
    /\ bgp = [d \in Devices |-> BgpNone]
    /\ tpc = [d \in Devices |-> "idle"]
    /\ un = [d \in Devices |-> UnNone]
    /\ runs = [d \in Devices |-> 0]

\* devices with their Config Context fetched and their interfaces configured,
\* as the stages before update_netbox leave them
InitReconcile ==
    /\ HarnessIdle
    /\ hosts = Devices
    /\ \E ctx \in [Devices -> Contexts], mac \in {"aa", "None"} :
          /\ nb_devices = [d \in Devices |->
                              [id |-> DeviceId(d), role |-> ProvisionRole, found |-> TRUE,
                               local_context_data |-> ctx[d]]]
          /\ host = [d \in Devices |->
                        [keys |-> {"device_id", "config_vars"}, device_id |-> DeviceId(d),
                         config_vars |-> ctx[d]]]
          /\ dev = [d \in Devices |->
                       [scp |-> TRUE, interfaces |-> Observed(ctx[d], mac),
                        bgp |-> ctx[d].bgp.neighbors, saved |-> FALSE]]
    /\ nb_interfaces \in {<<>>, PreInterfaces}
    /\ nb_ips \in {<<>>, PreIps}

\* update_netbox(task, netbox) called for a host, again once a call has returned
CallUpdateNetbox(d) ==
    /\ status = "harness"
    /\ d \in hosts
    /\ tpc[d] \in {"idle", "done"}
    /\ runs[d] < MaxRuns
    /\ UnStart(d)
    /\ UNCHANGED <<mainVars, host, configs, dev, nb_devices, nb_interfaces, nb_ips, l3, bgp,
                   runs>>

NextReconcile ==
    \E d \in Devices :
        \/ CallUpdateNetbox(d)
        \/ UnInterface(d)
        \/ UnRefresh(d)
        \/ UnIpLookup(d)
        \/ UnIpApply(d)
        \/ UnDevice(d)
        \/ UnRaise(d)

SpecReconcile == InitReconcile /\ [][NextReconcile]_vars

\* ------------------- update_netbox, called again as the device's facts change
\* MAC addresses a device reports: a real one, and the three placeholders
Macs == {"aa", "None", "Unspecified", ""}

\* what the device reports with its logical interfaces removed
Physical(mac) == [k \in DOMAIN FactoryInterfaces |->
                     [FactoryInterfaces[k] EXCEPT !.mac_address = mac]]

\* the interface facts a device with this Config Context may report
Snapshots(ctx) == {Observed(ctx, mac) : mac \in Macs} \cup {Physical(mac) : mac \in Macs}

\* one host with its Config Context fetched, reporting one of its snapshots
InitSnapshots ==
    /\ HarnessIdle
    /\ \E d0 \in Devices : hosts = {d0}
    /\ \E ctx \in Contexts :
          /\ nb_devices = [d \in Devices |->
                              [id |-> DeviceId(d), role |-> ProvisionRole, found |-> TRUE,
                               local_context_data |-> ctx]]
          /\ host = [d \in Devices |->
                        [keys |-> {"device_id", "config_vars"}, device_id |-> DeviceId(d),
                         config_vars |-> ctx]]
          /\ \E snap \in Snapshots(ctx) :
                dev = [d \in Devices |->
                          [scp |-> TRUE, interfaces |-> snap,
                           bgp |-> ctx.bgp.neighbors, saved |-> FALSE]]
    /\ nb_interfaces \in {<<>>, PreInterfaces}
    /\ nb_ips \in {<<>>, PreIps}

\* between two calls the device comes to report other interface facts
Observe(d) ==
    /\ status = "harness"
    /\ d \in hosts
    /\ tpc[d] \in {"idle", "done"}
    /\ runs[d] < MaxRuns
    /\ \E snap \in Snapshots(host[d].config_vars) :
          /\ snap # dev[d].interfaces
          /\ dev' = [dev EXCEPT ![d].interfaces = snap]
    /\ UNCHANGED <<mainVars, host, configs, nb_devices, nb_interfaces, nb_ips, l3, bgp,
                   tpc, un, runs>>

\* the script is run again for a host whose update_netbox raised
Retry(d) ==
    /\ status = "harness"
    /\ tpc[d] = "raised"
    /\ tpc' = [tpc EXCEPT ![d] = "idle"]
    /\ runs' = [runs EXCEPT ![d] = @ + 1]
    /\ UNCHANGED <<mainVars, host, configs, dev, nb_devices, nb_interfaces, nb_ips, l3, bgp,
                   un>>

NextSnapshots ==
    \/ NextReconcile
    \/ \E d \in Devices : Observe(d) \/ Retry(d)

SpecSnapshots == InitSnapshots /\ [][NextSnapshots]_vars

\* --------------------------------------------- validate_l3, called directly
ProbeAddrs == {5, 6, 9}

\* Config Contexts of two interfaces and one or two neighbors
ProbeContexts ==
    {[interfaces |-> <<Intf(IfGig, a, p, "Uplink"), Intf(IfLoop, b, q, "Router ID")>>,
      bgp |-> [neighbors |-> [k \in DOMAIN n |-> [ipaddr |-> n[k]]]]] :
        a \in ProbeAddrs, p \in 0 .. AddrBits, b \in {1, 5}, q \in {1, AddrBits},
        n \in [{1} -> ProbeAddrs] \cup [{1, 2} -> ProbeAddrs]}

InitValidate ==
    /\ HarnessIdle
    /\ \E d0 \in Devices : hosts = {d0}
    /\ \E ctx \in ProbeContexts :
          /\ nb_devices = [d \in Devices |->
                              [id |-> DeviceId(d), role |-> ProvisionRole, found |-> TRUE,
                               local_context_data |-> ctx]]
          /\ host = [d \in Devices |->
                        [keys |-> {"device_id", "config_vars"}, device_id |-> DeviceId(d),
                         config_vars |-> ctx]]
          /\ dev = [d \in Devices |->
                       [scp |-> TRUE, interfaces |-> Observed(ctx, "aa"),
                        bgp |-> <<>>, saved |-> FALSE]]
    /\ nb_interfaces = <<>>
    /\ nb_ips = <<>>

\* validate_l3(task) called for a host
CallValidateL3(d) ==
    /\ status = "harness"
    /\ d \in hosts
    /\ ~l3[d].ran
    /\ ValidateL3Task(d)
    /\ UNCHANGED <<pc, status, started, hosts, pending, failed_hosts, confirm, gates, clock,
                   reports, trace, host, configs, dev, nb_devices, nb_interfaces, nb_ips,
                   bgp, tpc, un, runs>>

NextValidate == \E d \in Devices : CallValidateL3(d)

SpecValidate == InitValidate /\ [][NextValidate]_vars

\* ================================================================ claims
\* the stages of main(), in the order of its nr.run calls
StageNames ==
    LET runsOf == SelectSeq(main, LAMBDA m : m.op = "run")
    IN  [k \in DOMAIN runsOf |-> runsOf[k].task]

\* the stages host d has executed, in order
Stages(d) == [k \in DOMAIN trace[d] |-> trace[d][k].stage]

StageSet(d) == {trace[d][k].stage : k \in DOMAIN trace[d]}

\* the position of a stage in the pipeline
StageIndex(task) == CHOOSE k \in DOMAIN StageNames : StageNames[k] = task

\* the hosts that have not failed a stage execute every stage after stage k
OthersRunAfter(k) ==
    \A e \in hosts :
        raised_in[e] = {} =>
            \A j \in DOMAIN StageNames : j > k => StageNames[j] \in StageSet(e)

\* host d, failed in stage k, runs nothing after k and is in every report from k on
FailedStaysOut(d, k) ==
    /\ \A j \in DOMAIN trace[d] : StageIndex(trace[d][j].stage) <= k
    /\ \A j \in DOMAIN reports : j >= k => d \in reports[j]

\* C1 as stated: when the script has ended, for a host that failed stage k the
\* other hosts have executed every stage after k, and the failed host ran
\* nothing after k and is in every report from k on
C1_Original ==
    status \in {"done", "exited"} =>
        \A d \in hosts : \A k \in DOMAIN StageNames :
            StageNames[k] \in raised_in[d] => OthersRunAfter(k) /\ FailedStaysOut(d, k)

\* C1, amended: when a host fails stage k, (i) in a run whose gates are all
\* approved (the script reaches its end) every host that failed no stage has
\* executed every stage after k, and (ii) at any time the failed host has run
\* no stage after k and is in the failed hosts printed after stage k and after
\* every later stage
C1_StageIsolation ==
    \A d \in hosts : \A k \in DOMAIN StageNames :
        StageNames[k] \in raised_in[d] =>
            /\ status = "done" => OthersRunAfter(k)
            /\ FailedStaysOut(d, k)

\* a finished run in which one host failed apply-L3 and another ran every stage
C1_Witness ==
    /\ status = "done"
    /\ \E d \in hosts, e \in hosts :
          /\ raised_in[d] = {"apply_l3_configs"}
          /\ raised_in[e] = {}
          /\ Stages(e) = StageNames
          /\ Len(Stages(d)) = StageIndex("apply_l3_configs")

\* a gate was answered and the answer is not "y" or "Y"
Declined == gates # <<>> /\ Lower(confirm) # "y"

\* no stage is started and no device, file or NetBox record changes
Frozen ==
    /\ ~started'
    /\ UNCHANGED <<pending, trace, host, configs, dev, nb_devices, nb_interfaces, nb_ips>>

\* C2 as stated: once proceed() has read any answer other than "y", no stage
\* is started and device configuration and inventory stay as they are
C2_Original == [][(gates # <<>> /\ confirm # "y") => Frozen]_vars

\* C2, amended: once proceed() has read an answer whose lower-case form is
\* not "y", no stage is started for any host, and the device configuration,
\* the rendered files and the NetBox records stay exactly as the completed
\* stages left them
C2_DeclinedGateFreezes == [][Declined => Frozen]_vars

\* the gate before apply-routing is declined after apply-L3 configured a device
C2_Witness ==
    /\ status = "exited"
    /\ Len(gates) = 3
    /\ Lower(confirm) # "y"
    /\ \E d \in hosts :
          /\ "apply_l3_configs" \in StageSet(d)
          /\ "apply_bgp_configs" \notin StageSet(d)
          /\ dev[d].interfaces # FactoryInterfaces
          /\ dev[d].scp

\* C3 as stated: NetBox never holds two IP records with the same address
C3_NoDuplicateIp ==
    \A i \in DOMAIN nb_ips : \A j \in DOMAIN nb_ips :
        nb_ips[i].address = nb_ips[j].address => i = j

\* host d's task of update_netbox takes a step
UnStep(d) == tpc'[d] # tpc[d] \/ un'[d] # un[d]

\* C4: in a call of update_netbox for a host for which an earlier call has
\* returned, with the device and the Config Context unchanged, no step of the
\* call creates an interface or IP record (its count of creates stays 0) and
\* no step changes the NetBox interface or IP records
C4_ReconcileIdempotent ==
    [][\A d \in Devices :
          (runs[d] >= 1 /\ UnStep(d)) =>
              /\ nb_interfaces' = nb_interfaces
              /\ nb_ips' = nb_ips
              /\ un'[d].creates = 0]_vars

\* a second call has returned for a host whose first call created records
C4_Witness ==
    \E d \in Devices :
        /\ runs[d] = 2
        /\ tpc[d] = "done"
        /\ \E k \in DOMAIN nb_interfaces : nb_interfaces[k].device.display_name = d
        /\ \E k \in DOMAIN nb_ips : \E j \in DOMAIN nb_interfaces :
              /\ nb_ips[k].interface = nb_interfaces[j].id
              /\ nb_interfaces[j].device.display_name = d
              /\ nb_interfaces[j].id > Len(PreInterfaces)

\* C5: when the lookup of an interface's CIDR string has found an IP record,
\* the rest of the pass creates no IP record and changes none, the address is
\* flagged for manual verification, and the task goes on (it does not raise)
C5_ExistingIpFlagged ==
    [][\A d \in Devices :
          (tpc[d] = "ip_apply" /\ un[d].ip_exists # <<>> /\ UnStep(d)) =>
              /\ nb_ips' = nb_ips
              /\ un[d].ipaddr \in un'[d].flagged
              /\ tpc'[d] = "ip"]_vars

\* update_netbox has returned for a host after flagging an address that
\* NetBox held before the run
C5_Witness ==
    \E d \in Devices :
        /\ tpc[d] = "done"
        /\ result[d] = "ok"
        /\ PreIps[1].address \in un[d].flagged
        /\ C3_NoDuplicateIp

\* the neighbor address lies in the network of the interface: both addresses
\* agree above the host part the interface's netmask leaves
InInterfaceNetwork(intf, neighbor) ==
    LET size == AllOnes - intf.ipaddr[2] + 1
    IN  neighbor.ipaddr \div size = intf.ipaddr[1] \div size

\* the probes of host d from interface i to the n-th neighbor
ProbesOf(d, n, i) ==
    LET cv == host[d].config_vars
    IN  {k \in DOMAIN l3[d].probes :
            /\ l3[d].probes[k].neighbor = n
            /\ l3[d].probes[k].intf = cv.interfaces[i].name
            /\ l3[d].probes[k].source = cv.interfaces[i].ipaddr[1]
            /\ l3[d].probes[k].dest = cv.bgp.neighbors[n].ipaddr}

\* C6: when validate_l3 has returned for a host, for every neighbor and every
\* interface of its Config Context there is exactly one probe from the
\* interface's address to the neighbor if the neighbor lies in the interface's
\* network under the interface's mask and none otherwise; there are no other
\* probes, so a neighbor in no local network adds no probe and no failure
C6_ProbeIffSameNetwork ==
    \A d \in Devices :
        (l3[d].ran /\ result[d] = "ok") =>
            LET cv == host[d].config_vars
            IN  /\ \A n \in DOMAIN cv.bgp.neighbors : \A i \in DOMAIN cv.interfaces :
                      Cardinality(ProbesOf(d, n, i)) =
                          IF InInterfaceNetwork(cv.interfaces[i], cv.bgp.neighbors[n])
                          THEN 1 ELSE 0
                /\ \A k \in DOMAIN l3[d].probes :
                      \E n \in DOMAIN cv.bgp.neighbors : \E i \in DOMAIN cv.interfaces :
                          k \in ProbesOf(d, n, i)
                /\ Len(l3[d].results) = Len(l3[d].probes)
                /\ l3[d].failed_pings <= Len(l3[d].probes)

\* validate_l3 has returned for a host with one neighbor probed from both
\* interfaces and another neighbor not probed at all
C6_Witness ==
    \E d \in Devices :
        /\ l3[d].ran
        /\ result[d] = "ok"
        /\ \E n \in DOMAIN host[d].config_vars.bgp.neighbors :
              \A i \in DOMAIN host[d].config_vars.interfaces : ProbesOf(d, n, i) # {}
        /\ \E n \in DOMAIN host[d].config_vars.bgp.neighbors :
              \A i \in DOMAIN host[d].config_vars.interfaces : ProbesOf(d, n, i) = {}

\* the results that count as failed: no "success" entry, or a loss of 2 or more
FailedResults(d) ==
    {k \in DOMAIN l3[d].results :
        \/ "success" \notin l3[d].results[k].keys
        \/ l3[d].results[k].packet_loss >= 2}

\* C7: failed_pings of validate_l3 is the number of results without a
\* "success" entry or with packet_loss >= 2, and when the task has returned
\* the success message is printed exactly when that number is zero
C7_FailedPingCount ==
    \A d \in Devices :
        l3[d].ran =>
            /\ l3[d].failed_pings = Cardinality(FailedResults(d))
            /\ result[d] = "ok" => (l3[d].message <=> Cardinality(FailedResults(d)) = 0)

\* validate_l3 has returned with a lost packet that passed and a failed probe
C7_Witness ==
    \E d \in Devices :
        /\ l3[d].ran
        /\ result[d] = "ok"
        /\ ~l3[d].message
        /\ \E k \in DOMAIN l3[d].results :
              "success" \in l3[d].results[k].keys /\ l3[d].results[k].packet_loss = 1
        /\ \E k \in DOMAIN l3[d].results :
              "success" \in l3[d].results[k].keys /\ l3[d].results[k].packet_loss = 2
        /\ l3[d].failed_pings = 1

\* C8: a step that changes the NetBox interface or IP records is a step of a
\* host's update_netbox task, taken while main() is in the nr.run of
\* update_netbox, and every host that has not failed has by then executed
\* validate_l3 and validate_bgp
C8_InventoryAfterValidation ==
    [][(nb_interfaces' # nb_interfaces \/ nb_ips' # nb_ips) =>
          /\ AtOp("run") /\ main[pc].task = "update_netbox"
          /\ \E d \in Devices : tpc[d] \in {"intf", "ip_apply"} /\ UnStep(d)
          /\ \A d \in RunOn : {"validate_l3", "validate_bgp"} \subseteq StageSet(d)
          /\ \A d \in Devices : ~l3[d].ran /\ ~bgp[d].ran]_vars

\* update_netbox has created an interface record and an IP record
C8_Witness ==
    /\ status = "running"
    /\ Len(nb_interfaces) > Len(PreInterfaces)
    /\ Len(nb_ips) > Len(PreIps)

\* the stages in the order the pipeline is specified
PipelineOrder ==
    <<"scp_enable", "get_config_vars", "render_configs", "apply_l3_configs", "validate_l3",
      "apply_bgp_configs", "validate_bgp", "update_netbox", "scp_disable">>

\* the n-th stage of host d started at least SettleSeconds after the one before
Settled(d, n) == trace[d][n].t - trace[d][n - 1].t >= SettleSeconds

\* C9: the stages a host has executed are an initial part of the pipeline
\* order, each once; a host's task has ended before its next stage starts;
\* and each validation starts a settle delay after the apply stage before it
C9_StageOrder ==
    \A d \in Devices :
        /\ Len(trace[d]) <= Len(PipelineOrder)
        /\ Stages(d) = SubSeq(PipelineOrder, 1, Len(trace[d]))
        /\ d \in pending => result[d] = "none" /\ tpc[d] = "idle"
        /\ \A n \in DOMAIN trace[d] :
              trace[d][n].stage \in {"validate_l3", "validate_bgp"} =>
                  /\ n > 1
                  /\ trace[d][n - 1].stage \in {"apply_l3_configs", "apply_bgp_configs"}
                  /\ Settled(d, n)

\* a host has executed the whole pipeline
C9_Witness ==
    /\ status = "done"
    /\ \E d \in Devices : Stages(d) = PipelineOrder /\ raised_in[d] = {}

NoRaiseBefore(d, j) == \A s \in raised_in[d] : StageIndex(s) >= j

\* the two validation stages
Validations == {"validate_l3", "validate_bgp"}

\* C11: a host for which validate_l3 counted a failed probe or validate_bgp
\* found a peer down is marked as warned, and its task has failed only if a
\* call raised; a warned host is not among the failed hosts printed after a
\* validation stage whose task returned, and in a run whose gates are all
\* approved it executes every later stage up to the first one its task raises in
C11_ValidationNeverExcludes ==
    \A d \in hosts :
        /\ l3[d].ran /\ l3[d].failed_pings > 0 =>
              warned[d] /\ (result[d] = "failed" <=> "validate_l3" \in raised_in[d])
        /\ bgp[d].ran /\ (\E k \in DOMAIN bgp[d].messages : bgp[d].messages[k].text = "DOWN") =>
              warned[d] /\ result[d] = "ok"
        /\ warned[d] =>
              \A v \in (Validations \cap StageSet(d)) \ raised_in[d] :
                  /\ Len(reports) >= StageIndex(v) => d \notin reports[StageIndex(v)]
                  /\ status = "done" =>
                        \A j \in DOMAIN StageNames :
                            j > StageIndex(v) /\ NoRaiseBefore(d, j) =>
                                StageNames[j] \in StageSet(d)

\* a finished run in which a host that had a failed probe or a peer down
\* executed the whole pipeline
C11_Witness ==
    /\ status = "done"
    /\ \E d \in hosts :
          /\ warned[d]
          /\ raised_in[d] = {}
          /\ Stages(d) = StageNames

\* the loops of update_netbox over the observed interfaces and over the
\* Config Context interfaces of host d have both finished
LoopsFinished(d) == tpc[d] = "ip" /\ un[d].todo = <<>> /\ un[d].intents = <<>>

\* C12: a call of update_netbox that has returned leaves the device in the
\* Production role, whether or not it flagged an IP address; and the role of a
\* device changes, and the call returns, only in a step taken after the
\* interface loop and the IP loop of that device have finished
C12_TransitionAfterReconcile ==
    /\ [](\A d \in Devices : tpc[d] = "done" => nb_devices[d].role = ProductionRole)
    /\ [][\A d \in Devices :
              \/ nb_devices'[d].role # nb_devices[d].role
              \/ tpc'[d] = "done" /\ tpc[d] # "done"
              => /\ LoopsFinished(d)
                 /\ nb_devices'[d].role = ProductionRole]_vars

\* the first call for a device has returned with an IP address flagged, and the
\* device is in Production
C12_Witness ==
    \E d \in Devices :
        /\ tpc[d] = "done"
        /\ runs[d] = 1
        /\ un[d].flagged # {}
        /\ nb_devices[d].role = ProductionRole

\* nothing was asked, no stage was invoked and no task was started
NothingRan == gates = <<>> /\ reports = <<>> /\ \A d \in Devices : trace[d] = <<>>

\* C13: the script exits early only from kickoff() with no host left, nothing
\* asked and no stage run, or from a declined proceed(); it goes past kickoff()
\* only with a host; until it ends it always has a next step, whichever tasks
\* raise; and when main() returns, every stage has been invoked and reported
C13_EndsOnlyAtExits ==
    /\ status = "exited" => (hosts = {} /\ NothingRan) \/ Declined
    /\ hosts = {} => pc = 1 /\ NothingRan
    /\ status = "running" => ENABLED Next
    /\ status = "done" =>
          /\ pc = Len(main) + 1
          /\ Len(reports) = Len(StageNames)
          /\ \A k \in DOMAIN gates : k = 1 \/ gates[k] > 0

\* main() has returned although every host failed its first stage
C13_Witness ==
    /\ status = "done"
    /\ hosts = Devices
    /\ \A d \in hosts : raised_in[d] = {"scp_enable"}
    /\ Len(reports) = Len(StageNames)

\* NetBox finds no record for the host's name, or the record has no Config Context
NoIntent(d) == ~nb_devices[d].found \/ ~HasContext(nb_devices[d].local_context_data)

\* C14: a host whose NetBox record is missing or has no Config Context, once
\* get_config_vars has run for it, has failed that stage, is among the failed
\* hosts printed after it and has executed no later stage; and in a complete
\* run the hosts that failed nothing have executed every later stage
C14_NoIntentFailsFetch ==
    \A d \in hosts :
        NoIntent(d) /\ "get_config_vars" \in StageSet(d) =>
            /\ "get_config_vars" \in raised_in[d]
            /\ FailedStaysOut(d, StageIndex("get_config_vars"))
            /\ status = "done" => OthersRunAfter(StageIndex("get_config_vars"))

\* the positions of the NetBox interface records of device d named name
RecordsOf(nbs, d, name) ==
    {k \in DOMAIN nbs : nbs[k].device.id = DeviceId(d) /\ nbs[k].name = name}

\* host d takes a pass of the loop over its observed interfaces
InterfacePass(d) ==
    /\ tpc[d] = "intf" /\ tpc'[d] = "intf"
    /\ un[d].todo # <<>> /\ un'[d].todo = Tail(un[d].todo)

\* C15: NetBox never holds two interface records for one (device, name); and a
\* pass of the interface loop appends one record with the observed description
\* and the normalised MAC when NetBox holds none for (device, name), and
\* otherwise sets the description and MAC of the existing record, adding none
C15_InterfaceUpsert ==
    /\ [](\A d \in Devices : \A name \in {IfGig, IfLoop, IfStale} :
              Cardinality(RecordsOf(nb_interfaces, d, name)) <= 1)
    /\ [][\A d \in Devices :
              InterfacePass(d) =>
                  LET i   == Head(un[d].todo)
                      old == RecordsOf(nb_interfaces, d, i.name)
                      new == RecordsOf(nb_interfaces', d, i.name)
                  IN  /\ Cardinality(new) = 1
                      /\ \A k \in new :
                            /\ nb_interfaces'[k].description = i.description
                            /\ nb_interfaces'[k].mac_address = NormalizeMac(i.mac_address)
                      /\ Len(nb_interfaces') = Len(nb_interfaces) + (IF old = {} THEN 1 ELSE 0)
                      /\ old # {} => new = old]_vars

\* after a second call that saw other facts, a record created by the first
\* call has been updated and is still the only one of its name
C15_Witness ==
    \E d \in hosts :
        /\ runs[d] = 2
        /\ tpc[d] = "done"
        /\ \E k \in DOMAIN nb_interfaces :
              /\ k > Len(PreInterfaces)
              /\ nb_interfaces[k].device.id = DeviceId(d)
              /\ nb_interfaces[k].name = IfGig
              /\ nb_interfaces[k].mac_address = "EE:EE:EE:EE:EE:EE"
              /\ nb_interfaces[k].description = ""
              /\ \E j \in DOMAIN nb_interfaces : j # k /\ nb_interfaces[j].name = IfGig

\* host d is in its interface loop and has observed an interface of this name
ObservedBy(d, r) ==
    /\ tpc[d] = "intf"
    /\ r.device.id = DeviceId(d)
    /\ \E j \in DOMAIN un[d].interfaces : un[d].interfaces[j].name = r.name

\* C16: no step of update_netbox removes an interface record or an IP record:
\* the records NetBox holds stay at their place, the IP records as they are,
\* and an interface record is changed only by the host of its device while
\* that host has an interface of that name among its observed interfaces
C16_NeverDeletes ==
    [][/\ Len(nb_interfaces') >= Len(nb_interfaces)
       /\ Len(nb_ips') >= Len(nb_ips)
       /\ SubSeq(nb_ips', 1, Len(nb_ips)) = nb_ips
       /\ \A k \in DOMAIN nb_interfaces :
             \/ nb_interfaces'[k] = nb_interfaces[k]
             \/ /\ \E d \in Devices : ObservedBy(d, nb_interfaces[k])
                /\ nb_interfaces'[k].id = nb_interfaces[k].id
                /\ nb_interfaces'[k].name = nb_interfaces[k].name
                /\ nb_interfaces'[k].device = nb_interfaces[k].device]_vars

\* two calls have returned for csr1: the record of the interface it never
\* reported is as before, the loopback record of the first call is still
\* there though the device no longer reports a loopback, the uplink changed
C16_Witness ==
    /\ runs["csr1"] = 2 /\ tpc["csr1"] = "done"
    /\ Len(nb_interfaces) > Len(PreInterfaces)
    /\ nb_interfaces[2] = PreInterfaces[2]
    /\ nb_interfaces[1] # PreInterfaces[1]
    /\ RecordsOf(nb_interfaces, "csr1", IfLoop) # {}
    /\ dev["csr1"].interfaces = Physical("None")

\* C17: the record a pass of the interface loop creates or updates carries
\* EE:EE:EE:EE:EE:EE when the observed MAC address is "None", "Unspecified" or
\* the empty string, and the observed MAC address itself otherwise
C17_MacNormalization ==
    [][\A d \in Devices :
          InterfacePass(d) =>
              LET i == Head(un[d].todo)
              IN  \A k \in RecordsOf(nb_interfaces', d, i.name) :
                      nb_interfaces'[k].mac_address =
                          IF i.mac_address \in {"None", "Unspecified", ""}
                          THEN "EE:EE:EE:EE:EE:EE"
                          ELSE i.mac_address]_vars

\* a first call has updated the existing uplink record, observed with the MAC
\* address "Unspecified", and created the loopback record, observed with none
C17_Witness ==
    /\ runs["csr1"] = 0 /\ tpc["csr1"] = "ip"
    /\ un["csr1"].creates = 1
    /\ dev["csr1"].interfaces[1].mac_address = "Unspecified"
    /\ Len(nb_interfaces) = Len(PreInterfaces) + 1
    /\ nb_interfaces[1].mac_address = "EE:EE:EE:EE:EE:EE"
    /\ nb_interfaces[3].name = IfLoop
    /\ nb_interfaces[3].mac_address = "EE:EE:EE:EE:EE:EE"

\* C18: validate_bgp prints one line for each peer napalm_get returned, in
\* their order: "UP" for a peer whose is_up is true, "DOWN" for one whose
\* is_up is false, and nothing else
C18_PeerUpOrDown ==
    \A d \in Devices :
        bgp[d].ran =>
            /\ Len(bgp[d].messages) = Len(bgp[d].peers)
            /\ \A k \in DOMAIN bgp[d].peers :
                  /\ bgp[d].messages[k].peer = bgp[d].peers[k].peer
                  /\ bgp[d].messages[k].text \in {"UP", "DOWN"}
                  /\ bgp[d].messages[k].text = "UP" <=> bgp[d].peers[k].is_up

\* validate_bgp has reported a host with one peer up and one peer down
C18_Witness ==
    \E d \in Devices :
        /\ bgp[d].ran
        /\ Len(bgp[d].peers) = 2
        /\ bgp[d].peers[1].is_up /\ ~bgp[d].peers[2].is_up
        /\ bgp[d].messages[1].text = "UP" /\ bgp[d].messages[2].text = "DOWN"

\* host d ends the pass of its IP loop for the Config Context interface intf
IpPass(d) == tpc[d] = "ip_apply" /\ tpc'[d] = "ip"

\* the step appends one IP record: the address of the pass, attached to the
\* interface record NetBox holds for (d, name)
CreatesIpOn(d, name) ==
    /\ Cardinality(RecordsOf(nb_interfaces, d, name)) = 1
    /\ \A k \in RecordsOf(nb_interfaces, d, name) :
          nb_ips' = Append(nb_ips, [address |-> un[d].ipaddr,
                                    interface |-> nb_interfaces[k].id])

\* C19 as stated: for an interface that was new to NetBox when the call
\* started, the call has created the interface record by the time of the IP
\* pass, and the pass creates the IP record attached to that record
C19_Original ==
    [][\A d \in Devices :
          IpPass(d) /\ Head(un[d].intents).name \in un[d].fresh =>
              CreatesIpOn(d, Head(un[d].intents).name)]_vars

\* C19, amended: the same, provided the lookup of the pass still finds no IP
\* record for the address (no other host's call has created one meanwhile)
C19_IpOnNewInterface ==
    [][\A d \in Devices :
          /\ IpPass(d)
          /\ Head(un[d].intents).name \in un[d].fresh
          /\ un[d].ip_exists = <<>>
          => CreatesIpOn(d, Head(un[d].intents).name)]_vars

\* a call that found the loopback new to NetBox has created its interface
\* record and then an IP record attached to it
C19_Witness ==
    \E d \in Devices :
        /\ tpc[d] = "ip"
        /\ IfLoop \in un[d].fresh
        /\ un[d].intents = <<>>
        /\ \E k \in RecordsOf(nb_interfaces, d, IfLoop) : \E j \in DOMAIN nb_ips :
              /\ nb_ips[j].interface = nb_interfaces[k].id
              /\ nb_ips[j].address = CidrStr(ip_interface(host[d].config_vars.interfaces[2].ipaddr[1],
                                                           host[d].config_vars.interfaces[2].ipaddr[2]))

\* scp_enable has run for host d without raising
ScpEnabledBy(d) == "scp_enable" \in StageSet(d) /\ "scp_enable" \notin raised_in[d]

\* C20: scp_disable is started for a host only after the host has executed
\* every earlier stage without raising and all three gates were approved; a
\* host that scp_enable succeeded for keeps SCP enabled, with no
\* netmiko_save_config run for it, as long as scp_disable has not run for it,
\* and so ends the run when it failed a later stage or a gate was declined
C20_CleanupOnlyOnSuccess ==
    \A d \in Devices :
        /\ "scp_disable" \in StageSet(d) =>
              /\ raised_in[d] \subseteq {"scp_disable"}
              /\ Stages(d) = StageNames
              /\ Len(gates) = 3 /\ ~Declined
        /\ ScpEnabledBy(d) /\ "scp_disable" \notin StageSet(d) =>
              dev[d].scp /\ ~dev[d].saved
        /\ /\ status \in {"done", "exited"}
           /\ ScpEnabledBy(d)
           /\ raised_in[d] \ {"scp_disable"} # {} \/ Declined
           => dev[d].scp /\ ~dev[d].saved

\* a complete run in which one host failed update_netbox and keeps SCP enabled
\* and unsaved while the other was cleaned up
C20_Witness ==
    /\ status = "done"
    /\ \E d \in hosts, e \in hosts :
          /\ raised_in[d] = {"update_netbox"}
          /\ dev[d].scp /\ ~dev[d].saved
          /\ raised_in[e] = {}
          /\ ~dev[e].scp /\ dev[e].saved

====
